---- MODULE Spec2Model ----
(***************************************************************************)
(* State-machine model of src/main.py, the AI Writing Assistant CLI.       *)
(*                                                                         *)
(* A text (a Python str) is a sequence of tokens.  Inputs the program      *)
(* inspects (the API key, menu selectors, yes/no answers, the temperature, *)
(* the rating) are sequences of one-character tokens, so that str.strip,   *)
(* str.lower, str.startswith, dict.get and float() are computed character  *)
(* by character.  Free-form answers the program only copies into prompts   *)
(* are one-token texts.  An f-string is the concatenation of its literal   *)
(* pieces and of its fields.                                               *)
(***************************************************************************)
EXTENDS Integers, Sequences, FiniteSets, TLC

VARIABLES
    config,       \* the config module: whether GEMINI_API_KEY is set, and its value
    API_KEY,      \* module global API_KEY (main.py:16)
    pc,           \* position of the single thread of control
    exit_code,    \* the status the process ends with (0 unless sys.exit(1) ran)
    details,      \* run_activity's local `details` (<<>> before it is assigned)
    frame,        \* local variables of the function being executed (at the end
                  \* of the run, of the last function executed)
    trace         \* console reads, console prints and remote calls, in order

vars == <<config, API_KEY, pc, exit_code, details, frame, trace>>

(***************************************************************************)
(* Bounds of the model.                                                    *)
(***************************************************************************)
\* longest word-count selector typed at "Choice (1-4): "
MaxSelLen == 2

(***************************************************************************)
(* Python string operations.                                               *)
(***************************************************************************)
Whitespace == {" ", "\t"}

RECURSIVE lstrip(_)
lstrip(s) ==
    IF s # <<>> /\ Head(s) \in Whitespace THEN lstrip(Tail(s)) ELSE s

RECURSIVE rstrip(_)
rstrip(s) ==
    IF s # <<>> /\ s[Len(s)] \in Whitespace
    THEN rstrip(SubSeq(s, 1, Len(s) - 1))
    ELSE s

\* str.strip()
strip(s) == rstrip(lstrip(s))

UpperCase == <<"A","B","C","D","E","F","G","H","I","J","K","L","M",
               "N","O","P","Q","R","S","T","U","V","W","X","Y","Z">>
LowerCase == <<"a","b","c","d","e","f","g","h","i","j","k","l","m",
               "n","o","p","q","r","s","t","u","v","w","x","y","z">>

lower_char(c) ==
    IF \E i \in 1..Len(UpperCase) : UpperCase[i] = c
    THEN LowerCase[CHOOSE i \in 1..Len(UpperCase) : UpperCase[i] = c]
    ELSE c

\* str.lower()
lower(s) == [i \in 1..Len(s) |-> lower_char(s[i])]

\* str.startswith(prefix)
startswith(s, prefix) ==
    /\ Len(s) >= Len(prefix)
    /\ SubSeq(s, 1, Len(prefix)) = prefix

\* all texts over alphabet A of length at most n
TextsUpTo(A, n) == UNION {[1..k -> A] : k \in 0..n}

(***************************************************************************)
(* float(str), over texts made of digits, ".", "+", "-", whitespace and    *)
(* letters: surrounding whitespace is dropped, then an optional sign, then *)
(* digits with at most one point and at least one digit.  A value is       *)
(* m * 10^(-e), kept normalised so that equal numbers are equal values.    *)
(***************************************************************************)
DigitChars == <<"0","1","2","3","4","5","6","7","8","9">>
IsDigit(c) == \E i \in 1..Len(DigitChars) : DigitChars[i] = c
DigitVal(c) == (CHOOSE i \in 1..Len(DigitChars) : DigitChars[i] = c) - 1

RECURSIVE Normalise(_, _)
Normalise(m, e) ==
    IF e > 0 /\ m % 10 = 0 THEN Normalise(m \div 10, e - 1) ELSE [m |-> m, e |-> e]

RECURSIVE DigitsValue(_)
DigitsValue(s) ==
    IF s = <<>> THEN 0
    ELSE 10 * DigitsValue(SubSeq(s, 1, Len(s) - 1)) + DigitVal(s[Len(s)])

Unsigned(s) ==
    LET points == {i \in 1..Len(s) : s[i] = "."}
        digits == {i \in 1..Len(s) : IsDigit(s[i])}
    IN  IF points \cup digits = 1..Len(s) /\ Cardinality(points) <= 1 /\ digits # {}
        THEN LET p == IF points = {} THEN Len(s) + 1 ELSE CHOOSE i \in points : TRUE
                 whole == SubSeq(s, 1, p - 1)
                 frac == SubSeq(s, p + 1, Len(s))
             IN  [ok |-> TRUE, val |-> Normalise(DigitsValue(whole \o frac), Len(frac))]
        ELSE [ok |-> FALSE, val |-> Normalise(0, 0)]

\* float(s): ok = FALSE stands for ValueError
float(s) ==
    LET t == strip(s)
    IN  IF t # <<>> /\ Head(t) = "-"
        THEN LET u == Unsigned(Tail(t))
             IN  [ok |-> u.ok, val |-> [m |-> 0 - u.val.m, e |-> u.val.e]]
        ELSE IF t # <<>> /\ Head(t) = "+" THEN Unsigned(Tail(t))
        ELSE Unsigned(t)

(***************************************************************************)
(* What the user may type and what the remote service may do.              *)
(***************************************************************************)
\* the config module: GEMINI_API_KEY missing, or set to one of these texts
KeyTexts ==
    { <<>>,
      <<" ", " ">>,
      <<"s","k","-","i","n","v","a","l","i","d">>,
      <<"a","i","z","a","1">>,
      <<"x","A","I","z","a">>,
      <<"A","I","z","a","1">>,
      <<" ","A","I","z","a","1"," ">> }

Configs ==
    {[has |-> FALSE, val |-> <<>>]} \cup {[has |-> TRUE, val |-> k] : k \in KeyTexts}

Topics == {<<"climate policy">>}
EssayTypes == {<<"Argumentative">>}
Audiences == {<<"High school students">>}
Points == {<<"cite the 2015 accord">>}
Stances == {<<"Against">>}
References == {<<>>, <<"IPCC 2021">>}
Styles == {<<"Formal">>}
Comments == {<<"tone">>}

\* answers typed at "Choice (1-4): "
WordCountChoices == TextsUpTo({"1", "2", "3", "4", "5", " "}, MaxSelLen)

\* answers typed at "(Yes/No): "
OutlineAnswers ==
    { <<"y","e","s">>, <<"Y","e","S">>, <<"N","o">>, <<" ","y","e","s">> }

\* answers typed at "Enter temperature"
TemperatureAnswers ==
    { <<"0",".","7">>, <<" ",".","7","0"," ">>,
      <<>>, <<"h","o","t">>, <<"0",".","7",".">> }

\* answers typed at "(Step/Full): "
BodyAnswers ==
    { <<"F","u","l","l">>, <<"f">>, <<"S","t","e","p">>, <<>>, <<" ","f">> }

\* answers typed at "Rate satisfaction"
Ratings == { <<"5">>, <<" ","5">>, <<"4">>, <<>> }

\* one remote generate_content call: it returns a response or raises
GenerateOutcomes ==
    { [raised |-> FALSE, text |-> <<"generated text">>, reason |-> <<>>],
      [raised |-> TRUE, text |-> <<>>, reason |-> <<"503 service unavailable">>] }

ProbeOutcomes ==
    { [raised |-> FALSE, text |-> <<"pong">>, reason |-> <<>>],
      [raised |-> FALSE, text |-> <<>>, reason |-> <<>>],
      [raised |-> FALSE, text |-> <<" ">>, reason |-> <<>>],
      [raised |-> TRUE, text |-> <<>>, reason |-> <<"403 permission denied">>] }

(***************************************************************************)
(* Console and remote events.                                              *)
(***************************************************************************)
\* a read whose answer the program keeps verbatim in a local variable
Asked(what) == [ev |-> "input", what |-> what]
\* a read whose answer the program converts at once (lower(), float()): the
\* transcript keeps what was typed
Typed(what, answer) == [ev |-> "input", what |-> what, answer |-> answer]
Shown(what, text) == [ev |-> "print", what |-> what, text |-> text]
ProbeCall(o) ==
    [ev |-> "call", what |-> "probe", prompt |-> <<"ping">>, raised |-> o.raised]
GenerateCall(prompt, temperature, o) ==
    [ev |-> "call", what |-> "generate", prompt |-> prompt,
     temperature |-> temperature, raised |-> o.raised, reason |-> o.reason]

(***************************************************************************)
(* main.py:16-21, module level: load and check the API key.                *)
(***************************************************************************)
\* getattr(config, "GEMINI_API_KEY", "").strip()
load_api_key(c) == strip(IF c.has THEN c.val ELSE <<>>)

\* a gate that only asks for a non-empty key
key_accepted_nonempty(k) == k # <<>>

\* not (not API_KEY or not API_KEY.startswith("AIza"))
key_accepted(k) == k # <<>> /\ startswith(k, <<"A","I","z","a">>)

LoadKey ==
    /\ pc = "load_key"
    /\ API_KEY' = load_api_key(config)
    /\ IF key_accepted(API_KEY')
       THEN /\ pc' = "run_activity"
            /\ UNCHANGED <<exit_code, trace>>
       ELSE /\ trace' = Append(trace, Shown("key error", <<"Please set a valid GEMINI_API_KEY">>))
            /\ exit_code' = 1
            /\ pc' = "exited"
    /\ UNCHANGED <<config, details, frame>>

(***************************************************************************)
(* main.py:23-40 gemini_ready_check, and main.py:141-144 its caller.       *)
(***************************************************************************)
\* a check that swallows the failure and reports ready
gemini_ready_check_always(o) == TRUE

\* a check that treats an empty response as a failure
gemini_ready_check_strict(o) == ~o.raised /\ strip(o.text) # <<>>

\* the value gemini_ready_check returns
gemini_ready_check(o) ==
    IF o.raised THEN FALSE
    ELSE IF strip(o.text) # <<>> THEN TRUE
    ELSE TRUE

\* what gemini_ready_check prints
gemini_ready_report(o) ==
    IF o.raised
    THEN <<Shown("probe failed", <<"Reason: ">> \o o.reason), Shown("fix checklist", <<>>)>>
    ELSE IF strip(o.text) # <<>> THEN <<Shown("probe verified", <<>>)>>
    ELSE <<Shown("probe empty warning", <<>>)>>

RunActivity ==
    /\ pc = "run_activity"
    /\ \E o \in ProbeOutcomes :
        /\ trace' = trace \o <<Shown("welcome", <<>>), ProbeCall(o)>> \o gemini_ready_report(o)
        /\ IF gemini_ready_check(o)
           THEN pc' = "topic" /\ UNCHANGED exit_code
           ELSE pc' = "exited" /\ exit_code' = 1
    /\ UNCHANGED <<config, API_KEY, details, frame>>

(***************************************************************************)
(* main.py:54-81 get_essay_details: one step per input() read.             *)
(***************************************************************************)
\* the local variables so far, with one more assigned
Assign(f, name, value) == (name :> value) @@ f

Ask(at, name, answers, next) ==
    /\ pc = at
    /\ \E a \in answers : frame' = Assign(frame, name, a)
    /\ trace' = Append(trace, Asked(name))
    /\ pc' = next
    /\ UNCHANGED <<config, API_KEY, exit_code, details>>

AskTopic ==
    /\ pc = "topic"
    /\ \E a \in Topics : frame' = Assign(frame, "topic", a)
    /\ trace' = trace \o <<Shown("banner", <<>>), Asked("topic")>>
    /\ pc' = "essay_type"
    /\ UNCHANGED <<config, API_KEY, exit_code, details>>

AskEssayType == Ask("essay_type", "essay_type", EssayTypes, "word_count")

\* a lookup that falls back to the selector itself
word_count_length_passthrough(choice) ==
    IF choice = <<"1">> THEN <<"300">>
    ELSE IF choice = <<"2">> THEN <<"900">>
    ELSE IF choice = <<"3">> THEN <<"1200">>
    ELSE IF choice = <<"4">> THEN <<"2000">>
    ELSE choice

\* {"1": "300", "2": "900", "3": "1200", "4": "2000"}.get(word_count_choice, "300")
word_count_length(choice) ==
    IF choice = <<"1">> THEN <<"300">>
    ELSE IF choice = <<"2">> THEN <<"900">>
    ELSE IF choice = <<"3">> THEN <<"1200">>
    ELSE IF choice = <<"4">> THEN <<"2000">>
    ELSE <<"300">>

AskWordCount ==
    /\ pc = "word_count"
    /\ \E a \in WordCountChoices :
        frame' = Assign(Assign(frame, "word_count_choice", a), "length", word_count_length(a))
    /\ trace' = trace \o <<Shown("word count menu", <<>>), Asked("word_count_choice")>>
    /\ pc' = "target_audience"
    /\ UNCHANGED <<config, API_KEY, exit_code, details>>

AskTargetAudience == Ask("target_audience", "target_audience", Audiences, "specific_points")
AskSpecificPoints == Ask("specific_points", "specific_points", Points, "stance")
AskStance == Ask("stance", "stance", Stances, "references")
AskReferences == Ask("references", "references", References, "writing_style")
AskWritingStyle == Ask("writing_style", "writing_style", Styles, "outline_needed")

\* the dict get_essay_details returns (main.py:71-81)
essay_details(f, outline_needed) ==
    [ topic |-> f.topic,
      essay_type |-> f.essay_type,
      length |-> f.length,
      target_audience |-> f.target_audience,
      specific_points |-> f.specific_points,
      stance |-> f.stance,
      references |-> f.references,
      writing_style |-> f.writing_style,
      outline_needed |-> outline_needed ]

\* main.py:70-81 and main.py:145: the last read, and the return into `details`
AskOutlineNeeded ==
    /\ pc = "outline_needed"
    /\ \E a \in OutlineAnswers :
        /\ details' = essay_details(frame, lower(a))
        /\ trace' = Append(trace, Typed("outline_needed", a))
    /\ frame' = <<>>
    /\ pc' = "temperature"
    /\ UNCHANGED <<config, API_KEY, exit_code>>

(***************************************************************************)
(* main.py:42-52 generate_response.                                        *)
(***************************************************************************)
\* a client that returns the bare failure reason
generate_response_bare_reason(o) ==
    IF o.raised THEN o.reason ELSE o.text

\* the text generate_response returns when the remote call ends as o
generate_response(o) ==
    IF o.raised THEN <<"Error: ">> \o o.reason ELSE o.text

(***************************************************************************)
(* main.py:83-131 generate_essay_content.                                  *)
(***************************************************************************)
DefaultTemperature == [m |-> 3, e |-> 1]

\* a fallback to the "creative" value 0.7
read_temperature_creative(answer) ==
    IF float(answer).ok THEN float(answer).val ELSE [m |-> 7, e |-> 1]

\* main.py:84-87: float(input(...)), 0.3 on ValueError
read_temperature(answer) ==
    IF float(answer).ok THEN float(answer).val ELSE DefaultTemperature

ReadTemperature ==
    /\ pc = "temperature"
    /\ \E a \in TemperatureAnswers :
        /\ frame' = Assign(frame, "temperature", read_temperature(a))
        /\ trace' = Append(trace, Typed("temperature", a))
    /\ pc' = "outline"
    /\ UNCHANGED <<config, API_KEY, exit_code, details>>

\* an outline unless the answer was "no"
outline_wanted_unless_no(d) == d.outline_needed # <<"n","o">>

\* main.py:89
outline_wanted(d) == d.outline_needed = <<"y","e","s">>

\* main.py:90-93
outline_prompt(d) ==
    <<"Create a clear outline for a ">> \o d.essay_type \o <<" essay about '">>
    \o d.topic \o <<"', written in a ">> \o d.writing_style \o <<" tone for ">>
    \o d.target_audience \o <<".">>

\* main.py:98-102
intro_prompt(d) ==
    <<"Write an introduction for a ">> \o d.essay_type \o <<" essay on '">>
    \o d.topic \o <<"' that supports a ">> \o d.stance \o <<" stance. Use a ">>
    \o d.writing_style \o <<" tone for ">> \o d.target_audience \o <<".">>

\* main.py:109-113
body_prompt(d) ==
    <<"Write the full body (about ">> \o d.length \o <<" words) of a ">>
    \o d.essay_type \o <<" essay on '">> \o d.topic \o <<"', taking a ">>
    \o d.stance \o <<" stance. Maintain a ">> \o d.writing_style
    \o <<" tone for ">> \o d.target_audience \o <<".">>

\* a step-by-step prompt that also states the length
step_prompt_with_length(d) ==
    <<"Write the essay body for '">> \o d.topic \o <<"' (about ">> \o d.length
    \o <<" words) step-by-step, explaining each argument and evidence clearly.">>

\* main.py:118-120
step_prompt(d) ==
    <<"Write the essay body for '">> \o d.topic
    \o <<"' step-by-step, explaining each argument and evidence clearly.">>

\* main.py:125-128
conclusion_prompt(d) ==
    <<"Write a conclusion for a ">> \o d.essay_type \o <<" essay on '">>
    \o d.topic \o <<"', summarizing the key arguments and reinforcing a ">>
    \o d.stance \o <<" stance.">>

\* x = generate_response(prompt, temperature); print(header); print(x)
Generate(section, prompt, o) ==
    <<GenerateCall(prompt, frame.temperature, o),
      Shown("header", <<section>>),
      Shown("content", generate_response(o))>>

\* main.py:89-96
GenerateOutline ==
    /\ pc = "outline"
    /\ outline_wanted(details)
    /\ \E o \in GenerateOutcomes :
        trace' = trace \o Generate("Generated Outline", outline_prompt(details), o)
    /\ pc' = "introduction"
    /\ UNCHANGED <<config, API_KEY, exit_code, details, frame>>

SkipOutline ==
    /\ pc = "outline"
    /\ ~outline_wanted(details)
    /\ pc' = "introduction"
    /\ UNCHANGED <<config, API_KEY, exit_code, details, frame, trace>>

\* main.py:98-105
GenerateIntroduction ==
    /\ pc = "introduction"
    /\ \E o \in GenerateOutcomes :
        trace' = trace \o Generate("Generated Introduction", intro_prompt(details), o)
    /\ pc' = "body_style"
    /\ UNCHANGED <<config, API_KEY, exit_code, details, frame>>

\* main.py:107
AskBodyStyle ==
    /\ pc = "body_style"
    /\ \E a \in BodyAnswers :
        /\ frame' = Assign(frame, "body_style", lower(a))
        /\ trace' = Append(trace, Typed("body_style", a))
    /\ pc' = "body"
    /\ UNCHANGED <<config, API_KEY, exit_code, details>>

\* a branch taken only on the whole word
full_draft_exact(body_style) == body_style = <<"f","u","l","l">>

\* main.py:108
full_draft(body_style) == startswith(body_style, <<"f">>)

\* main.py:108-116
GenerateFullBody ==
    /\ pc = "body"
    /\ full_draft(frame.body_style)
    /\ \E o \in GenerateOutcomes :
        trace' = trace \o Generate("Generated Full Body", body_prompt(details), o)
    /\ pc' = "conclusion"
    /\ UNCHANGED <<config, API_KEY, exit_code, details, frame>>

\* main.py:117-123
GenerateStepBody ==
    /\ pc = "body"
    /\ ~full_draft(frame.body_style)
    /\ \E o \in GenerateOutcomes :
        trace' = trace \o Generate("Generated Step-by-Step Body", step_prompt(details), o)
    /\ pc' = "conclusion"
    /\ UNCHANGED <<config, API_KEY, exit_code, details, frame>>

\* main.py:125-131, and the return to run_activity
GenerateConclusion ==
    /\ pc = "conclusion"
    /\ \E o \in GenerateOutcomes :
        trace' = trace \o Generate("Generated Conclusion", conclusion_prompt(details), o)
    /\ frame' = <<>>
    /\ pc' = "satisfaction"
    /\ UNCHANGED <<config, API_KEY, exit_code, details>>

(***************************************************************************)
(* main.py:133-139 feedback_and_refinement, then the end of run_activity.  *)
(***************************************************************************)
AskSatisfaction == Ask("satisfaction", "satisfaction", Ratings, "feedback")

\* a comparison of the rating as typed
wants_comment_unstripped(satisfaction) == satisfaction # <<"5">>

\* main.py:135
wants_comment(satisfaction) == strip(satisfaction) # <<"5">>

\* main.py:136-137
AskFeedback ==
    /\ pc = "feedback"
    /\ wants_comment(frame.satisfaction)
    /\ \E c \in Comments :
        /\ frame' = Assign(frame, "feedback", c)
        /\ trace' = trace \o <<Asked("feedback"), Shown("feedback noted", c)>>
    /\ pc' = "exited"
    /\ UNCHANGED <<config, API_KEY, exit_code, details>>

\* main.py:138-139
Acknowledge ==
    /\ pc = "feedback"
    /\ ~wants_comment(frame.satisfaction)
    /\ trace' = Append(trace, Shown("glad you liked it", <<>>))
    /\ pc' = "exited"
    /\ UNCHANGED <<config, API_KEY, exit_code, details, frame>>

(***************************************************************************)
(* The program.                                                            *)
(***************************************************************************)
Init ==
    /\ config \in Configs
    /\ API_KEY = <<>>
    /\ pc = "load_key"
    /\ exit_code = 0
    /\ details = <<>>
    /\ frame = <<>>
    /\ trace = <<>>

Next ==
    \/ LoadKey
    \/ RunActivity
    \/ AskTopic
    \/ AskEssayType
    \/ AskWordCount
    \/ AskTargetAudience
    \/ AskSpecificPoints
    \/ AskStance
    \/ AskReferences
    \/ AskWritingStyle
    \/ AskOutlineNeeded
    \/ ReadTemperature
    \/ GenerateOutline
    \/ SkipOutline
    \/ GenerateIntroduction
    \/ AskBodyStyle
    \/ GenerateFullBody
    \/ GenerateStepBody
    \/ GenerateConclusion
    \/ AskSatisfaction
    \/ AskFeedback
    \/ Acknowledge

Spec == Init /\ [][Next]_vars

\* the single thread keeps running as long as every read and remote call returns
FairSpec == Spec /\ WF_vars(Next)

(***************************************************************************)
(* Reading the transcript.                                                 *)
(***************************************************************************)
IsGenerateCall(e) == e.ev = "call" /\ e.what = "generate"
IsProbeCall(e) == e.ev = "call" /\ e.what = "probe"
IsRead(e) == e.ev = "input"
IsCall(e) == e.ev = "call"

RemoteCalls == SelectSeq(trace, IsCall)
GenerationCalls == SelectSeq(trace, IsGenerateCall)
Reads == SelectSeq(trace, IsRead)
ReadNames == [i \in 1..Len(Reads) |-> Reads[i].what]

\* what was typed at a prompt whose answer is converted at once
TypedAnswers(what) ==
    {trace[i].answer : i \in {j \in 1..Len(trace) : IsRead(trace[j]) /\ trace[j].what = what}}

\* the step a prompt belongs to, from the literal text it opens with
StepOf(prompt) ==
    CASE Head(prompt) = "Create a clear outline for a " -> "outline"
      [] Head(prompt) = "Write an introduction for a " -> "introduction"
      [] Head(prompt) = "Write the full body (about " -> "full"
      [] Head(prompt) = "Write the essay body for '" -> "step"
      [] Head(prompt) = "Write a conclusion for a " -> "conclusion"
      [] OTHER -> "unknown"

SectionTitle(step) ==
    CASE step = "outline" -> "Generated Outline"
      [] step = "introduction" -> "Generated Introduction"
      [] step = "full" -> "Generated Full Body"
      [] step = "step" -> "Generated Step-by-Step Body"
      [] step = "conclusion" -> "Generated Conclusion"
      [] OTHER -> "unknown"

IssuedSteps == [i \in 1..Len(GenerationCalls) |-> StepOf(GenerationCalls[i].prompt)]

IsPrefix(s, t) == Len(s) <= Len(t) /\ s = SubSeq(t, 1, Len(s))

\* "yes" in any mix of upper and lower case
YesAnyCase ==
    {a \in [1..3 -> {"y","Y","e","E","s","S"}] :
        a[1] \in {"y","Y"} /\ a[2] \in {"e","E"} /\ a[3] \in {"s","S"}}

OutlineRequested == \E a \in TypedAnswers("outline_needed") : a \in YesAnyCase

\* positions of the thread: before the orchestrator's first generation step,
\* and the number of steps from the introduction on that are behind it
BeforeGeneration ==
    {"load_key", "run_activity", "topic", "essay_type", "word_count",
     "target_audience", "specific_points", "stance", "references",
     "writing_style", "outline_needed", "temperature", "outline"}

StepsBehind ==
    CASE pc = "introduction" -> 0
      [] pc \in {"body_style", "body"} -> 1
      [] pc = "conclusion" -> 2
      [] OTHER -> 3

CompletedNormally == pc = "exited" /\ exit_code = 0

\* every generation call is followed at once by its section title and its result
DisplayedAtOnce ==
    \A i \in 1..Len(trace) :
        IsGenerateCall(trace[i]) =>
            /\ i + 2 <= Len(trace)
            /\ trace[i + 1] = Shown("header", <<SectionTitle(StepOf(trace[i].prompt))>>)
            /\ trace[i + 2].ev = "print" /\ trace[i + 2].what = "content"

(***************************************************************************)
(* C1.  One run issues its generation calls in the order [outline],        *)
(* introduction, body, conclusion, one call per step: the outline call is  *)
(* there exactly when the answer to the outline question was "yes" in any  *)
(* letter case, the body step is one of full/step, each call comes after   *)
(* the previous result was displayed; 4 calls with an outline, 3 without,  *)
(* none after the conclusion.                                              *)
(***************************************************************************)
C1_CallOrder ==
    LET first == IF OutlineRequested THEN <<"outline">> ELSE <<>>
        plan(b) == first \o <<"introduction", b, "conclusion">>
    IN  /\ \E b \in {"full", "step"} : IsPrefix(IssuedSteps, plan(b))
        /\ Len(GenerationCalls) =
              IF pc \in BeforeGeneration \/ exit_code = 1 THEN 0
              ELSE Len(first) + StepsBehind
        /\ DisplayedAtOnce

C1_Witness ==
    /\ CompletedNormally
    /\ IssuedSteps = <<"outline", "introduction", "full", "conclusion">>
    /\ <<"Y","e","S">> \in TypedAnswers("outline_needed")

(***************************************************************************)
(* C2.  Fail-soft orchestration: a failed remote call yields the text      *)
(* "Error: " followed by the failure reason, that text is displayed as the *)
(* step's content, the failure never ends the process, and the run goes on *)
(* through every later step and the feedback step to a normal end.         *)
(* Stated for FairSpec.                                                    *)
(***************************************************************************)
SomeGenerationFailed == \E i \in 1..Len(trace) : IsGenerateCall(trace[i]) /\ trace[i].raised

ErrorTextDisplayed ==
    \A i \in 1..Len(trace) :
        (IsGenerateCall(trace[i]) /\ trace[i].raised) =>
            /\ i + 2 <= Len(trace)
            /\ trace[i + 2] = Shown("content", <<"Error: ">> \o trace[i].reason)

AllStepsRan ==
    /\ Len(GenerationCalls) = (IF OutlineRequested THEN 4 ELSE 3)
    /\ IssuedSteps[Len(IssuedSteps)] = "conclusion"
    /\ \E i \in 1..Len(ReadNames) : ReadNames[i] = "body_style"
    /\ \E i \in 1..Len(ReadNames) : ReadNames[i] = "satisfaction"

C2_FailSoft ==
    /\ [](ErrorTextDisplayed)
    /\ [](SomeGenerationFailed => exit_code = 0)
    /\ [](CompletedNormally => AllStepsRan)
    /\ (SomeGenerationFailed ~> CompletedNormally)

C2_Witness ==
    /\ CompletedNormally
    /\ Len(GenerationCalls) = 4
    /\ \A i \in 1..4 : GenerationCalls[i].raised

(***************************************************************************)
(* C3.  Probe gate: when the probe's remote call raises, the readiness     *)
(* check answers false and the program exits with status 1; nothing is     *)
(* read from the user and no generation call is issued.                    *)
(***************************************************************************)
ProbeRaised == \E i \in 1..Len(trace) : IsProbeCall(trace[i]) /\ trace[i].raised
ProbeReturned == \E i \in 1..Len(trace) : IsProbeCall(trace[i]) /\ ~trace[i].raised

C3_ProbeGate ==
    ProbeRaised =>
        /\ pc = "exited"
        /\ exit_code = 1
        /\ Reads = <<>>
        /\ GenerationCalls = <<>>
        /\ Len(RemoteCalls) = 1

C3_Witness ==
    /\ ProbeRaised
    /\ pc = "exited"
    /\ trace[Len(trace)] = Shown("fix checklist", <<>>)

(***************************************************************************)
(* C4.  Credential gate.  As claimed: a configured key that is absent,     *)
(* empty or does not start with "AIza" ends the program with status 1      *)
(* before any remote call and before any read.                             *)
(***************************************************************************)
StoppedAtTheGate ==
    /\ RemoteCalls = <<>>
    /\ Reads = <<>>
    /\ pc # "load_key" => (pc = "exited" /\ exit_code = 1)

C4_AsClaimed ==
    (~config.has \/ config.val = <<>> \/ ~startswith(config.val, <<"A","I","z","a">>))
        => StoppedAtTheGate

(***************************************************************************)
(* C4, amended.  The gate looks at the key with its surrounding whitespace *)
(* removed: a key that is absent, or is empty once stripped, or does not   *)
(* start with "AIza" once stripped, ends the program with status 1 before  *)
(* any remote call and any read; no remote call is made in such a run.     *)
(***************************************************************************)
StrippedKeyRejected ==
    LET k == strip(IF config.has THEN config.val ELSE <<>>)
    IN  k = <<>> \/ Len(k) < 4 \/ SubSeq(k, 1, 4) # <<"A","I","z","a">>

C4_CredentialGate == StrippedKeyRejected => StoppedAtTheGate

C4_Witness ==
    /\ config.has
    /\ config.val = <<"s","k","-","i","n","v","a","l","i","d">>
    /\ pc = "exited"
    /\ exit_code = 1

(***************************************************************************)
(* C5.  A temperature answer that fails numeric parsing makes every        *)
(* generation call of the run carry 0.3; in every run the temperature is   *)
(* fixed when it is read and every generation call carries that value.     *)
(***************************************************************************)
InOrchestrator ==
    pc \in {"outline", "introduction", "body_style", "body", "conclusion"}

C5_Temperature ==
    LET sent == {trace[i].temperature : i \in {j \in 1..Len(trace) : IsGenerateCall(trace[j])}}
    IN  /\ \A a \in TypedAnswers("temperature") :
              ~float(a).ok => sent \subseteq {[m |-> 3, e |-> 1]}
        /\ Cardinality(sent) <= 1
        /\ InOrchestrator => sent \subseteq {frame.temperature}

C5_Witness ==
    /\ CompletedNormally
    /\ <<"0",".","7",".">> \in TypedAnswers("temperature")
    /\ Len(GenerationCalls) = 4
    /\ GenerationCalls[4].temperature = [m |-> 3, e |-> 1]

(***************************************************************************)
(* C6.  Word-count selection: "1", "2", "3", "4" give "300", "900",        *)
(* "1200", "2000"; every other selector (empty, padded with whitespace)    *)
(* gives "300"; the length of a request is one of the four; the selector   *)
(* is asked for once and the collector goes on.                            *)
(***************************************************************************)
AfterWordCount ==
    {"target_audience", "specific_points", "stance", "references",
     "writing_style", "outline_needed"}

WordCountReads ==
    {i \in 1..Len(trace) : IsRead(trace[i]) /\ trace[i].what = "word_count_choice"}

C6_WordCount ==
    /\ pc \in AfterWordCount =>
          /\ frame.word_count_choice = <<"1">> => frame.length = <<"300">>
          /\ frame.word_count_choice = <<"2">> => frame.length = <<"900">>
          /\ frame.word_count_choice = <<"3">> => frame.length = <<"1200">>
          /\ frame.word_count_choice = <<"4">> => frame.length = <<"2000">>
          /\ frame.word_count_choice \notin {<<"1">>, <<"2">>, <<"3">>, <<"4">>}
                => frame.length = <<"300">>
          /\ Cardinality(WordCountReads) = 1
    /\ details # <<>> =>
          /\ details.length \in {<<"300">>, <<"900">>, <<"1200">>, <<"2000">>}
          /\ Cardinality(WordCountReads) = 1

C6_Witness ==
    /\ pc = "outline_needed"
    /\ frame.word_count_choice = <<" ", "2">>
    /\ frame.length = <<"300">>

(***************************************************************************)
(* C7.  Body-mode branch: an answer that starts with "f" or "F" takes the  *)
(* full-draft branch (one call, displayed as Full Body); any other answer, *)
(* the empty one and one with leading whitespace included, takes the       *)
(* step-by-step branch (one call, displayed as Step-by-Step Body); exactly *)
(* one of the two runs.                                                    *)
(***************************************************************************)
BodyIsBehind == pc \in {"conclusion", "satisfaction", "feedback"} \/ CompletedNormally

TimesShown(title) ==
    Cardinality({i \in 1..Len(trace) : trace[i] = Shown("header", <<title>>)})

TimesIssued(step) ==
    Cardinality({i \in 1..Len(trace) :
                    IsGenerateCall(trace[i]) /\ StepOf(trace[i].prompt) = step})

C7_BodyBranch ==
    LET full == TimesIssued("full")
        step == TimesIssued("step")
    IN  /\ full = TimesShown("Generated Full Body")
        /\ step = TimesShown("Generated Step-by-Step Body")
        /\ ~BodyIsBehind => (full = 0 /\ step = 0)
        /\ BodyIsBehind =>
              \A a \in TypedAnswers("body_style") :
                  IF a # <<>> /\ a[1] \in {"f", "F"}
                  THEN full = 1 /\ step = 0
                  ELSE full = 0 /\ step = 1

C7_Witness ==
    /\ pc = "conclusion"
    /\ <<" ", "f">> \in TypedAnswers("body_style")
    /\ TimesShown("Generated Step-by-Step Body") = 1

(***************************************************************************)
(* C8.  Feedback step.  As claimed: the acknowledgment is printed and no   *)
(* comment is read exactly when the rating is the text "5".                *)
(***************************************************************************)
Acknowledged ==
    \E i \in 1..Len(trace) : trace[i] = Shown("glad you liked it", <<>>)

CommentReads ==
    {i \in 1..Len(trace) : IsRead(trace[i]) /\ trace[i].what = "feedback"}

C8_AsClaimed ==
    CompletedNormally =>
        ((Acknowledged /\ CommentReads = {}) <=> frame.satisfaction = <<"5">>)

(***************************************************************************)
(* C8, amended.  The acknowledgment is printed, and no comment is read,    *)
(* exactly when the rating with its surrounding whitespace removed is "5"; *)
(* for every other rating exactly one comment is read and echoed back.     *)
(* The step issues no remote call and leaves the request, the key and the  *)
(* exit status as they were.                                               *)
(***************************************************************************)
RatingIsFive ==
    LET r == frame.satisfaction
        inner == {i \in 1..Len(r) : r[i] \notin {" ", "\t"}}
    IN  /\ Cardinality(inner) = 1
        /\ \A i \in inner : r[i] = "5"

CommentEchoed ==
    /\ Cardinality(CommentReads) = 1
    /\ \A i \in CommentReads :
          /\ i = Len(trace) - 1
          /\ trace[i + 1] = Shown("feedback noted", frame.feedback)

FeedbackKeepsState ==
    pc \in {"satisfaction", "feedback"} =>
        /\ RemoteCalls' = RemoteCalls
        /\ UNCHANGED <<config, API_KEY, details, exit_code>>

C8_FeedbackStep ==
    /\ [](CompletedNormally =>
            /\ RatingIsFive => (Acknowledged /\ CommentReads = {})
            /\ ~RatingIsFive => (~Acknowledged /\ CommentEchoed))
    /\ [][FeedbackKeepsState]_vars

C8_Witness ==
    /\ CompletedNormally
    /\ frame.satisfaction = <<" ", "5">>
    /\ Acknowledged
    /\ CommentReads = {}

(***************************************************************************)
(* C9.  Prompt determinism: each prompt sent is the step's template filled *)
(* from the request fields listed for the step and from nothing else: any  *)
(* request that agrees with this run's on those fields gives the very same *)
(* prompt at that step, whatever the earlier calls returned (error text    *)
(* included) and whatever specific_points, references and the other        *)
(* unlisted fields hold.                                                   *)
(***************************************************************************)
Lengths == {<<"300">>, <<"900">>, <<"1200">>, <<"2000">>}

\* any request: the answers of the model, and others for the fields that some
\* step leaves out
Requests ==
    [ topic : Topics, essay_type : EssayTypes, length : Lengths,
      target_audience : Audiences,
      specific_points : Points \cup {<<>>},
      stance : Stances \cup {<<"For">>},
      references : References, writing_style : Styles,
      outline_needed : {lower(a) : a \in OutlineAnswers} ]

ListedFields(step) ==
    CASE step = "outline" -> {"essay_type", "topic", "writing_style", "target_audience"}
      [] step = "introduction" ->
            {"essay_type", "topic", "writing_style", "target_audience", "stance"}
      [] step = "full" ->
            {"essay_type", "topic", "writing_style", "target_audience", "stance", "length"}
      [] step = "step" -> {"topic"}
      [] step = "conclusion" -> {"essay_type", "topic", "stance"}
      [] OTHER -> {}

TemplateOf(step, d) ==
    CASE step = "outline" -> outline_prompt(d)
      [] step = "introduction" -> intro_prompt(d)
      [] step = "full" -> body_prompt(d)
      [] step = "step" -> step_prompt(d)
      [] step = "conclusion" -> conclusion_prompt(d)
      [] OTHER -> <<>>

ResultJustDisplayed == pc \in {"introduction", "body_style", "conclusion", "satisfaction"}

C9_PromptDeterminism ==
    ResultJustDisplayed =>
        \A i \in 1..Len(trace) :
            IsGenerateCall(trace[i]) =>
                LET step == StepOf(trace[i].prompt)
                IN  /\ step # "unknown"
                    /\ \A d \in Requests :
                          (\A f \in ListedFields(step) : d[f] = details[f])
                              => TemplateOf(step, d) = trace[i].prompt

C9_Witness ==
    /\ pc = "satisfaction"
    /\ Len(GenerationCalls) = 4
    /\ GenerationCalls[1].raised
    /\ ~GenerationCalls[2].raised
    /\ details.references # <<>>

(***************************************************************************)
(* C10.  Successful-probe path: when the probe's remote call returns, with *)
(* text or with none, the readiness check answers true, the collector, the *)
(* orchestrator and the feedback step run in that order, each once, and    *)
(* the program ends with status 0; status 1 comes only from the credential *)
(* gate or from a failed probe.  Stated for FairSpec.                      *)
(***************************************************************************)
CollectorReads ==
    <<"topic", "essay_type", "word_count_choice", "target_audience",
      "specific_points", "stance", "references", "writing_style", "outline_needed">>

OrchestratorReads == <<"temperature", "body_style">>

FullRun == CollectorReads \o OrchestratorReads \o <<"satisfaction", "feedback">>

C10_ProbePath ==
    /\ [](ProbeReturned => exit_code = 0)
    /\ [](exit_code = 1 => (StrippedKeyRejected \/ ProbeRaised))
    /\ [](IsPrefix(ReadNames, FullRun))
    /\ [](CompletedNormally =>
            /\ IsPrefix(CollectorReads \o OrchestratorReads \o <<"satisfaction">>, ReadNames)
            /\ Len(GenerationCalls) \in {3, 4})
    /\ (ProbeReturned ~> CompletedNormally)

C10_Witness ==
    /\ CompletedNormally
    /\ \E i \in 1..Len(trace) : trace[i] = Shown("probe empty warning", <<>>)
    /\ Len(ReadNames) = 12

====
